---- MODULE Spec2Model ----
(***************************************************************************)
(* A model of the song-list viewer: the page script (catalog, favorites,  *)
(* query/render pipeline, pagination, persisted storage) and the service  *)
(* worker (install, activate, cache-first fetch handling).                *)
(*                                                                         *)
(* Text is a sequence of one-character strings, so that lower-casing,     *)
(* whitespace removal and substring search are computed, not assumed.     *)
(* A song record is immutable; the state holds a record by its key k and  *)
(* Song(k) is the record.                                                 *)
(***************************************************************************)
EXTENDS Integers, Sequences, FiniteSets, TLC

VARIABLES
    \* ---- page script (src/unnamed/part_000) ----
    pc,                  \* "closed" | "loaded" | "ready": position of init()
    songs,               \* let songs: sequence of song keys
    favorites,           \* let favorites: a Set, kept in insertion order
    currentFilter,       \* "all" | "favorites"
    currentSort,         \* "title" | "artist"
    currentPage,
    isRendering,
    searchDebounceTimer, \* 0 (null) or the handle of the last timer set
    pendingTimers,       \* handles of the timers that have not fired or been cleared
    nextTimer,           \* the handle the next setTimeout returns
    searchInput,         \* elements.searchInput.value
    frames,              \* pending requestAnimationFrame callbacks: the searchTerm each captured
    filteredSongs,       \* filteredSongs of the last frame callback (closure of the load-more button)
    display,             \* elements.songList: mode, items, load-more button and its data-* attributes
    activeMarks,         \* the displayed songs whose favorite button has the class "active"
    stats,               \* elements.songCount / favoriteCount
    lsSongs,             \* localStorage[songbook_songs]
    lsFavorites,         \* localStorage[songbook_favorites]
    fetchOutcome,        \* outcome of the last fetch of assets/songs.json
    loadMoreCount,       \* load-more clicks since the last frame callback
    \* ---- service worker (src/service-worker.js) ----
    swState,             \* per version: "none" | "installing" | "installed" | "activating" | "activated" | "redundant"
    swPc,                \* per version: the pending step of its install or activate promise chain
    skipWaitingFlag,     \* per version: self.skipWaiting() was called
    cacheStorage,        \* caches: the buckets in creation order, each a name and its entries
    toDelete,            \* per version: the caches.delete calls of activate still pending
    controller,          \* the version controlling the open page (0: none)
    requests,            \* the fetch events answered with respondWith, each with its handler's position
    passedThrough,       \* the fetch events the listener returned from without respondWith
    messagesHandled,     \* the message events the "message" listener has handled
    online,              \* whether the network is reachable
    deployed,            \* the version of the site the server serves
    unhandledRejections  \* whether a promise has rejected with no handler

appVars == <<pc, songs, favorites, currentFilter, currentSort, currentPage, isRendering,
             searchDebounceTimer, pendingTimers, nextTimer, searchInput, frames,
             filteredSongs, display, activeMarks, stats, lsSongs, lsFavorites, fetchOutcome,
             loadMoreCount>>

swVars == <<swState, swPc, skipWaitingFlag, cacheStorage, toDelete, controller, requests,
            passedThrough, messagesHandled, online, deployed, unhandledRejections>>

vars == <<appVars, swVars>>

(***************************************************************************)
(* Bounds of the model.                                                    *)
(***************************************************************************)
SmallCatalog == 3        \* size of the small catalog the fetch can return
MaxTimers == 2           \* setTimeout calls per session
BigCatalog == 101        \* size of the large catalog (pagination)
PagingTimers == 1        \* setTimeout calls per session with the large catalog
PagingFavoriteKey == 1   \* favorites among keys 1..PagingFavoriteKey with the large catalog
NumVersions == 2         \* versions of the service worker deployed over time
MaxRequests == 2         \* fetch events dispatched over time
MaxFavoriteKey == 3      \* the user marks favorites among the songs with keys 1..MaxFavoriteKey
MaxMessages == 1         \* message events dispatched over time
LifecycleRequests == 1   \* fetch events dispatched over time, lifecycle specification

(***************************************************************************)
(* Program constants.                                                      *)
(***************************************************************************)
ITEMS_PER_PAGE == 50
LOADING_THRESHOLD == 100

(***************************************************************************)
(* Text: characters, String.prototype methods.                             *)
(***************************************************************************)
LowerChars == <<"a","b","c","d","e","f","g","h","i","j","k","l","m",
                "n","o","p","q","r","s","t","u","v","w","x","y","z">>
UpperChars == <<"A","B","C","D","E","F","G","H","I","J","K","L","M",
                "N","O","P","Q","R","S","T","U","V","W","X","Y","Z">>
DigitChars == <<"0","1","2","3","4","5","6","7","8","9">>
Whitespace == {" ", "\t"}

IndexIn(seq, c) == CHOOSE i \in 1..Len(seq) : seq[i] = c
IsIn(seq, c) == \E i \in 1..Len(seq) : seq[i] = c
Elements(seq) == {seq[i] : i \in 1..Len(seq)}

Chars == Elements(LowerChars) \cup Elements(UpperChars) \cup Elements(DigitChars) \cup Whitespace

\* One character of toLowerCase().
LowerCharOf ==
    [c \in Chars |-> IF IsIn(UpperChars, c) THEN LowerChars[IndexIn(UpperChars, c)] ELSE c]
LowerChar(c) == LowerCharOf[c]

\* text.toLowerCase()
ToLowerCase(text) == [i \in 1..Len(text) |-> LowerChar(text[i])]

\* text.replace(/\s+/g, "")
StripWhitespace(text) == SelectSeq(text, LAMBDA c : c \notin Whitespace)

RECURSIVE TrimStart(_)
TrimStart(text) ==
    IF text # <<>> /\ Head(text) \in Whitespace THEN TrimStart(Tail(text)) ELSE text

RECURSIVE TrimEnd(_)
TrimEnd(text) ==
    IF text # <<>> /\ text[Len(text)] \in Whitespace
    THEN TrimEnd(SubSeq(text, 1, Len(text) - 1)) ELSE text

\* text.trim()
Trim(text) == TrimEnd(TrimStart(text))

\* hay.includes(needle)
Includes(hay, needle) ==
    \E i \in 0..(Len(hay) - Len(needle)) :
        \A j \in 1..Len(needle) : hay[i + j] = needle[j]

\* function normalizeForSearch(text)
normalizeForSearch(text) ==
    IF text = <<>> THEN <<>> ELSE StripWhitespace(ToLowerCase(text))

\* Collation weights of a.localeCompare(b) in the default locale: whitespace
\* before digits before letters; letters compare without case first.
PrimaryWeightOf ==
    [c \in Chars |->
        IF c \in Whitespace THEN 0
        ELSE IF IsIn(DigitChars, c) THEN IndexIn(DigitChars, c)
        ELSE 10 + IndexIn(LowerChars, LowerCharOf[c])]
PrimaryWeight(c) == PrimaryWeightOf[c]

\* Lower case sorts before upper case when the letters are otherwise equal.
CaseWeightOf == [c \in Chars |-> IF IsIn(UpperChars, c) THEN 1 ELSE 0]
CaseWeight(c) == CaseWeightOf[c]

\* Lexicographic comparison of two weight sequences from position i on.
RECURSIVE CompareFrom(_, _, _)
CompareFrom(wa, wb, i) ==
    IF i > Len(wa) /\ i > Len(wb) THEN 0
    ELSE IF i > Len(wa) THEN -1
    ELSE IF i > Len(wb) THEN 1
    ELSE IF wa[i] < wb[i] THEN -1
    ELSE IF wa[i] > wb[i] THEN 1
    ELSE CompareFrom(wa, wb, i + 1)

\* a.localeCompare(b): negative, zero or positive
localeCompare(a, b) ==
    LET p == CompareFrom([i \in 1..Len(a) |-> PrimaryWeight(a[i])],
                         [i \in 1..Len(b) |-> PrimaryWeight(b[i])], 1)
    IN IF p # 0 THEN p
       ELSE CompareFrom([i \in 1..Len(a) |-> CaseWeight(a[i])],
                        [i \in 1..Len(b) |-> CaseWeight(b[i])], 1)

(***************************************************************************)
(* The catalog source: song records by key.                                *)
(***************************************************************************)
RECURSIVE Digits(_)
Digits(n) == IF n < 10 THEN <<DigitChars[n + 1]>>
             ELSE Digits(n \div 10) \o <<DigitChars[(n % 10) + 1]>>

\* The records of assets/songs.json; keys 1..3 are written out, the rest generated.
SongRecord(k) ==
    CASE k = 1 -> [number |-> <<"1","2">>,
                   title  |-> <<"A","m","a","z","i","n","g"," ","G","r","a","c","e">>,
                   artist |-> <<"J","o","h","n","N","e","w","t","o","n">>]
      [] k = 2 -> [number |-> <<"7">>,
                   title  |-> <<"C","l","o","s","e","r">>,
                   artist |-> <<"T","h","e","C","h","a","i","n","s","m","o","k","e","r","s">>]
      [] k = 3 -> [number |-> <<"A"," ","3">>,
                   title  |-> <<"a","m","a","z","i","n","g","D","a","y">>,
                   artist |-> <<"J","o","h","n"," ","n","e","w","t","o","n">>]
      [] OTHER -> [number |-> Digits(100 + k),
                   title  |-> <<"S">> \o Digits((k * 37) % 40),
                   artist |-> <<"B">> \o Digits(k % 7)]

SongTable == [k \in 1..(BigCatalog + SmallCatalog) |-> SongRecord(k)]
Song(k) == SongTable[k]

\* The catalogs a fetch of assets/songs.json can return.
CatalogSizes == {0, SmallCatalog}
PagingSizes == {BigCatalog}
Catalog(n) == [k \in 1..n |-> k]

\* What the user types into the search box.
SearchInputs == { <<>>,
                  <<" ","N","e","w"," ","T","o","n"," ">>,
                  <<"1","0">> }
PagingInputs == { <<>>, <<"1">> }

(***************************************************************************)
(* localStorage and JSON.                                                  *)
(***************************************************************************)
\* localStorage.getItem of a key never set
NoItem == [null |-> TRUE]

\* JSON.stringify(value): the text of a value
JSONstringify(value) == [json |-> value]

\* JSON.parse(text)
JSONparse(text) == text.json

\* if (saved): null is falsy, every JSON text is a non-empty string
Truthy(saved) == saved # NoItem

(***************************************************************************)
(* A JavaScript Set of song numbers, in insertion order.                   *)
(***************************************************************************)
SetHas(set, x) == \E i \in 1..Len(set) : set[i] = x
SetAdd(set, x) == IF SetHas(set, x) THEN set ELSE Append(set, x)
SetDelete(set, x) == SelectSeq(set, LAMBDA y : y # x)

\* new Set(array): duplicates dropped, first occurrence kept
RECURSIVE NewSet(_)
NewSet(array) ==
    IF array = <<>> THEN <<>>
    ELSE SetAdd(NewSet(SubSeq(array, 1, Len(array) - 1)), array[Len(array)])

Min(a, b) == IF a < b THEN a ELSE b

(***************************************************************************)
(* The query: filter and sort of renderSongs' frame callback.              *)
(***************************************************************************)
\* matchesSearch of one song for the captured searchTerm
\* normalizedTitle, normalizedArtist and normalizedNumber of every song
NormalizedSongs ==
    [k \in 1..(BigCatalog + SmallCatalog) |->
        [title |-> normalizeForSearch(Song(k).title),
         artist |-> normalizeForSearch(Song(k).artist),
         number |-> StripWhitespace(Song(k).number)]]

\* matchesSearch with the number lower-cased like the title and the artist
MatchesSearchLowerNumber(k, searchTerm) ==
    LET normalizedSearchTerm == normalizeForSearch(searchTerm)
    IN \/ normalizedSearchTerm = <<>>
       \/ Includes(NormalizedSongs[k].title, normalizedSearchTerm)
       \/ Includes(NormalizedSongs[k].artist, normalizedSearchTerm)
       \/ Includes(normalizeForSearch(Song(k).number), normalizedSearchTerm)

\* matchesSearch of one song
MatchesSearch(k, searchTerm) ==
    LET normalizedSearchTerm == normalizeForSearch(searchTerm)
        normalizedTitle == NormalizedSongs[k].title
        normalizedArtist == NormalizedSongs[k].artist
        normalizedNumber == NormalizedSongs[k].number
    IN \/ normalizedSearchTerm = <<>>
       \/ Includes(normalizedTitle, normalizedSearchTerm)
       \/ Includes(normalizedArtist, normalizedSearchTerm)
       \/ Includes(normalizedNumber, normalizedSearchTerm)

\* matchesFavorites of one song
MatchesFavorites(k, filter, favs) == filter = "all" \/ SetHas(favs, Song(k).number)

\* songs.filter(...)
FilterSongs(list, searchTerm, filter, favs) ==
    SelectSeq(list, LAMBDA k : MatchesSearch(k, searchTerm) /\ MatchesFavorites(k, filter, favs))

\* The comparator handed to sort
CompareSongs(a, b, sortKey) ==
    IF sortKey = "title" THEN localeCompare(Song(a).title, Song(b).title)
    ELSE localeCompare(Song(a).artist, Song(b).artist)

\* Stable merge of two sorted runs, l before r: an element of r goes before
\* an element of l only when it compares strictly less.
RECURSIVE Merge(_, _, _)
Merge(l, r, sortKey) ==
    IF l = <<>> THEN r
    ELSE IF r = <<>> THEN l
    ELSE LET mid == (Len(l) + 1) \div 2
             pivot == l[mid]
             c == Cardinality({j \in 1..Len(r) : CompareSongs(r[j], pivot, sortKey) < 0})
         IN Merge(SubSeq(l, 1, mid - 1), SubSeq(r, 1, c), sortKey)
            \o <<pivot>>
            \o Merge(SubSeq(l, mid + 1, Len(l)), SubSeq(r, c + 1, Len(r)), sortKey)

\* Array.prototype.sort: a stable sort by the comparator
RECURSIVE SortSongs(_, _)
SortSongs(list, sortKey) ==
    IF Len(list) <= 1 THEN list
    ELSE LET h == Len(list) \div 2
         IN Merge(SortSongs(SubSeq(list, 1, h), sortKey),
                  SortSongs(SubSeq(list, h + 1, Len(list)), sortKey), sortKey)

\* filteredSongs after the filter and the sort
QueryResult(list, searchTerm, filter, sortKey, favs) ==
    SortSongs(FilterSongs(list, searchTerm, filter, favs), sortKey)

(***************************************************************************)
(* The display (elements.songList).                                        *)
(***************************************************************************)
NoButton == [btn |-> FALSE, loaded |-> 0, total |-> 0]
InitialDisplay == [mode |-> "initial", items |-> <<>>] @@ NoButton
LoadingDisplay == [mode |-> "loading", items |-> <<>>] @@ NoButton
EmptyDisplay(songsNow) ==
    [mode |-> IF Len(songsNow) = 0 THEN "no_songs_loaded" ELSE "no_songs_match",
     items |-> <<>>] @@ NoButton

\* function renderSongsImmediate(filteredSongs)
renderSongsImmediate(filtered) == [mode |-> "list", items |-> filtered] @@ NoButton

\* function renderSongsVirtual(filteredSongs)
renderSongsVirtual(filtered) ==
    LET totalSongs == Len(filtered)
        itemsPerPage == ITEMS_PER_PAGE
        initialSongs == SubSeq(filtered, 1, Min(itemsPerPage, totalSongs))
    IN IF totalSongs > itemsPerPage
       THEN [mode |-> "list", items |-> initialSongs,
             btn |-> TRUE, loaded |-> itemsPerPage, total |-> totalSongs]
       ELSE [mode |-> "list", items |-> initialSongs] @@ NoButton

\* loadMoreSongs with the next batch sliced one element early
loadMoreSongsOffByOne(allSongs, d) ==
    LET loaded == d.loaded
        total == d.total
        nextBatch == SubSeq(allSongs, loaded, Min(loaded + ITEMS_PER_PAGE - 1, Len(allSongs)))
        newLoaded == loaded + Len(nextBatch)
    IN IF newLoaded >= total
       THEN [mode |-> "list", items |-> d.items \o nextBatch] @@ NoButton
       ELSE [mode |-> "list", items |-> d.items \o nextBatch,
             btn |-> TRUE, loaded |-> newLoaded, total |-> total]

\* function loadMoreSongs(allSongs, button): the display after the click
loadMoreSongs(allSongs, d) ==
    LET loaded == d.loaded
        total == d.total
        itemsPerPage == ITEMS_PER_PAGE
        nextBatch == SubSeq(allSongs, loaded + 1, Min(loaded + itemsPerPage, Len(allSongs)))
        newLoaded == loaded + Len(nextBatch)
    IN IF newLoaded >= total
       THEN [mode |-> "list", items |-> d.items \o nextBatch] @@ NoButton
       ELSE [mode |-> "list", items |-> d.items \o nextBatch,
             btn |-> TRUE, loaded |-> newLoaded, total |-> total]

\* function updateStats()
updateStats(songsNow, favsNow) == [songCount |-> Len(songsNow), favoriteCount |-> Len(favsNow)]

(***************************************************************************)
(* The page script's operations.                                           *)
(***************************************************************************)
\* function saveToStorage(), with the songs and favorites of the moment
saveToStorage(songsNow, favsNow) ==
    /\ lsSongs' = JSONstringify(songsNow)
    /\ lsFavorites' = JSONstringify(favsNow)

\* songs = data.songs || data || []
FetchedSongs(data) == IF data.shape = "object" THEN data.songs ELSE data.array

\* The bodies a successful fetch of assets/songs.json can carry.
FetchedData(sizes) ==
    {[shape |-> "object", songs |-> Catalog(n)] : n \in sizes}
    \cup {[shape |-> "array", array |-> Catalog(n)] : n \in sizes}

\* renderSongs without its isRendering guard
renderSongsUnguarded(songsNow) ==
    /\ isRendering' = TRUE
    /\ frames' = Append(frames, Trim(ToLowerCase(searchInput)))
    /\ display' = IF Len(songsNow) > LOADING_THRESHOLD THEN LoadingDisplay ELSE display
    /\ activeMarks' = IF Len(songsNow) > LOADING_THRESHOLD THEN {} ELSE activeMarks

\* function renderSongs(), up to the requestAnimationFrame call; songsNow is
\* the caller's songs at the call.
renderSongs(songsNow) ==
    IF isRendering
    THEN UNCHANGED <<isRendering, frames, display, activeMarks>>
    ELSE /\ isRendering' = TRUE
         /\ frames' = Append(frames, Trim(ToLowerCase(searchInput)))
         /\ display' = IF Len(songsNow) > LOADING_THRESHOLD THEN LoadingDisplay ELSE display
         /\ activeMarks' = IF Len(songsNow) > LOADING_THRESHOLD THEN {} ELSE activeMarks

\* async function loadFromStorage(), called by init() on DOMContentLoaded
LoadFromStorage(sizes) ==
    /\ pc = "closed"
    /\ pc' = "loaded"
    /\ \E outcome \in {"ok", "not_ok", "reject"} :
         /\ fetchOutcome' = outcome
         /\ \/ /\ outcome = "ok"
               /\ \E data \in FetchedData(sizes) :
                    /\ songs' = FetchedSongs(data)
                    /\ saveToStorage(songs', favorites)
            \/ /\ outcome = "not_ok"
               /\ UNCHANGED <<songs, lsSongs, lsFavorites>>
            \/ /\ outcome = "reject"
               /\ songs' = IF Truthy(lsSongs) THEN JSONparse(lsSongs) ELSE songs
               /\ UNCHANGED <<lsSongs, lsFavorites>>
    /\ favorites' = IF Truthy(lsFavorites') THEN NewSet(JSONparse(lsFavorites')) ELSE favorites
    /\ UNCHANGED <<currentFilter, currentSort, currentPage, isRendering, searchDebounceTimer,
                   pendingTimers, nextTimer, searchInput, frames, filteredSongs, display,
                   activeMarks, stats, loadMoreCount>>
    /\ UNCHANGED swVars

\* init() after the await: attachEventListeners(); renderSongs()
InitRender ==
    /\ pc = "loaded"
    /\ pc' = "ready"
    /\ renderSongs(songs)
    /\ UNCHANGED <<songs, favorites, currentFilter, currentSort, currentPage,
                   searchDebounceTimer, pendingTimers, nextTimer, searchInput,
                   filteredSongs, stats, lsSongs, lsFavorites, fetchOutcome, loadMoreCount>>
    /\ UNCHANGED swVars

\* The "input" listener without its clearTimeout
SearchInputNoClear(inputs, maxTimers) ==
    /\ pc = "ready"
    /\ nextTimer <= maxTimers
    /\ \E value \in inputs : searchInput' = value
    /\ pendingTimers' = pendingTimers \cup {nextTimer}
    /\ searchDebounceTimer' = nextTimer
    /\ nextTimer' = nextTimer + 1
    /\ UNCHANGED <<pc, songs, favorites, currentFilter, currentSort, currentPage, isRendering,
                   frames, filteredSongs, display, activeMarks, stats, lsSongs, lsFavorites,
                   fetchOutcome, loadMoreCount>>
    /\ UNCHANGED swVars

\* The "input" listener of the search box
SearchInput(inputs, maxTimers) ==
    /\ pc = "ready"
    /\ nextTimer <= maxTimers
    /\ \E value \in inputs : searchInput' = value
    /\ pendingTimers' = (IF searchDebounceTimer # 0
                         THEN pendingTimers \ {searchDebounceTimer}
                         ELSE pendingTimers) \cup {nextTimer}
    /\ searchDebounceTimer' = nextTimer
    /\ nextTimer' = nextTimer + 1
    /\ UNCHANGED <<pc, songs, favorites, currentFilter, currentSort, currentPage, isRendering,
                   frames, filteredSongs, display, activeMarks, stats, lsSongs, lsFavorites,
                   fetchOutcome, loadMoreCount>>
    /\ UNCHANGED swVars

\* The callback of the debounce timer
SearchTimerFires ==
    /\ pc = "ready"
    /\ \E t \in pendingTimers : pendingTimers' = pendingTimers \ {t}
    /\ currentPage' = 0
    /\ renderSongs(songs)
    /\ UNCHANGED <<pc, songs, favorites, currentFilter, currentSort, searchDebounceTimer,
                   nextTimer, searchInput, filteredSongs, stats, lsSongs, lsFavorites,
                   fetchOutcome, loadMoreCount>>
    /\ UNCHANGED swVars

\* The "click" listener of showFavorites
ShowFavoritesClick ==
    /\ pc = "ready"
    /\ currentFilter' = IF currentFilter = "all" THEN "favorites" ELSE "all"
    /\ currentPage' = 0
    /\ renderSongs(songs)
    /\ UNCHANGED <<pc, songs, favorites, currentSort, searchDebounceTimer, pendingTimers,
                   nextTimer, searchInput, filteredSongs, stats, lsSongs, lsFavorites,
                   fetchOutcome, loadMoreCount>>
    /\ UNCHANGED swVars

\* The "click" listener of sortToggle
SortToggleClick ==
    /\ pc = "ready"
    /\ currentSort' = IF currentSort = "title" THEN "artist" ELSE "title"
    /\ currentPage' = 0
    /\ renderSongs(songs)
    /\ UNCHANGED <<pc, songs, favorites, currentFilter, searchDebounceTimer, pendingTimers,
                   nextTimer, searchInput, filteredSongs, stats, lsSongs, lsFavorites,
                   fetchOutcome, loadMoreCount>>
    /\ UNCHANGED swVars

\* The "click" listener of clearAll, the dialog confirmed
ClearAllConfirmed ==
    /\ pc = "ready"
    /\ songs' = <<>>
    /\ favorites' = <<>>
    /\ saveToStorage(songs', favorites')
    /\ renderSongs(songs')
    /\ UNCHANGED <<pc, currentFilter, currentSort, currentPage, searchDebounceTimer,
                   pendingTimers, nextTimer, searchInput, filteredSongs, stats, fetchOutcome,
                   loadMoreCount>>
    /\ UNCHANGED swVars

\* document.querySelector(`[data-song-id="${songId}"]`): the first displayed
\* song with that number (0: null)
QuerySelector(d, songId) ==
    LET hits == SelectSeq(d.items, LAMBDA k : Song(k).number = songId)
    IN IF hits = <<>> THEN 0 ELSE hits[1]

\* btn.classList.toggle("active", force) on the button found, if any
ToggledMark(d, marks, songId, force) ==
    LET btn == QuerySelector(d, songId)
    IN IF btn = 0 THEN marks
       ELSE IF force THEN marks \cup {btn} ELSE marks \ {btn}

\* The buttons createSongElement marks "active" among the songs it is called for
CreatedMarks(batch, favs) == {k \in Elements(batch) : SetHas(favs, Song(k).number)}

\* toggleFavorite that only ever adds
ToggledFavoritesAddOnly(favs, songId) == SetAdd(favs, songId)

\* favorites after toggleFavorite(songId)
ToggledFavorites(favs, songId) ==
    IF SetHas(favs, songId) THEN SetDelete(favs, songId) ELSE SetAdd(favs, songId)

\* toggleFavorite that ends by calling renderSongs()
toggleFavoriteRerender(songId) ==
    /\ favorites' = ToggledFavorites(favorites, songId)
    /\ saveToStorage(songs, favorites')
    /\ stats' = updateStats(songs, favorites')
    /\ activeMarks' = ToggledMark(display, activeMarks, songId, SetHas(favorites', songId))
    /\ isRendering' = TRUE
    /\ frames' = IF isRendering THEN frames ELSE Append(frames, Trim(ToLowerCase(searchInput)))
    /\ UNCHANGED <<pc, songs, currentFilter, currentSort, currentPage, searchDebounceTimer,
                   pendingTimers, nextTimer, searchInput, filteredSongs, display, fetchOutcome,
                   loadMoreCount>>
    /\ UNCHANGED swVars

\* function toggleFavorite(songId), from the favorite button of a displayed song
toggleFavorite(songId) ==
    /\ favorites' = ToggledFavorites(favorites, songId)
    /\ saveToStorage(songs, favorites')
    /\ stats' = updateStats(songs, favorites')
    /\ activeMarks' = ToggledMark(display, activeMarks, songId, SetHas(favorites', songId))
    /\ UNCHANGED <<pc, songs, currentFilter, currentSort, currentPage, isRendering,
                   searchDebounceTimer, pendingTimers, nextTimer, searchInput, frames,
                   filteredSongs, display, fetchOutcome, loadMoreCount>>
    /\ UNCHANGED swVars

FavoriteClick(maxKey) ==
    /\ pc = "ready"
    /\ \E i \in 1..Len(display.items) :
         /\ display.items[i] <= maxKey
         /\ toggleFavorite(Song(display.items[i]).number)

\* The "click" listener of the load-more button
LoadMoreClick ==
    /\ pc = "ready"
    /\ display.btn
    /\ display' = loadMoreSongs(filteredSongs, display)
    /\ activeMarks' = activeMarks
                        \cup CreatedMarks(SubSeq(display'.items, Len(display.items) + 1,
                                                 Len(display'.items)), favorites)
    /\ loadMoreCount' = loadMoreCount + 1
    /\ UNCHANGED <<pc, songs, favorites, currentFilter, currentSort, currentPage, isRendering,
                   searchDebounceTimer, pendingTimers, nextTimer, searchInput, frames,
                   filteredSongs, stats, lsSongs, lsFavorites, fetchOutcome>>
    /\ UNCHANGED swVars

\* What the frame callback leaves in songList
RenderedDisplay(filtered, songsNow) ==
    IF Len(filtered) = 0 THEN EmptyDisplay(songsNow)
    ELSE IF Len(filtered) > ITEMS_PER_PAGE THEN renderSongsVirtual(filtered)
    ELSE renderSongsImmediate(filtered)

\* The requestAnimationFrame callback of renderSongs()
FrameCallback ==
    /\ pc = "ready"
    /\ frames # <<>>
    /\ LET searchTerm == Head(frames)
           filtered == QueryResult(songs, searchTerm, currentFilter, currentSort, favorites)
       IN /\ filteredSongs' = filtered
          /\ display' = RenderedDisplay(filtered, songs)
          /\ activeMarks' = CreatedMarks(display'.items, favorites)
    /\ frames' = Tail(frames)
    /\ stats' = updateStats(songs, favorites)
    /\ isRendering' = FALSE
    /\ loadMoreCount' = 0
    /\ UNCHANGED <<pc, songs, favorites, currentFilter, currentSort, currentPage,
                   searchDebounceTimer, pendingTimers, nextTimer, searchInput, lsSongs,
                   lsFavorites, fetchOutcome>>
    /\ UNCHANGED swVars

\* The page is closed or reloaded: the script's state is gone, localStorage stays.
CloseSession ==
    /\ pc = "ready"
    /\ pc' = "closed"
    /\ songs' = <<>>
    /\ favorites' = <<>>
    /\ currentFilter' = "all"
    /\ currentSort' = "title"
    /\ currentPage' = 0
    /\ isRendering' = FALSE
    /\ searchDebounceTimer' = 0
    /\ pendingTimers' = {}
    /\ nextTimer' = 1
    /\ searchInput' = <<>>
    /\ frames' = <<>>
    /\ filteredSongs' = <<>>
    /\ display' = InitialDisplay
    /\ activeMarks' = {}
    /\ stats' = [songCount |-> 0, favoriteCount |-> 0]
    /\ fetchOutcome' = "none"
    /\ loadMoreCount' = 0
    /\ UNCHANGED <<lsSongs, lsFavorites>>
    /\ UNCHANGED swVars

\* The first visit: the module's initial values, nothing in localStorage.
AppInit ==
    /\ pc = "closed"
    /\ songs = <<>>
    /\ favorites = <<>>
    /\ currentFilter = "all"
    /\ currentSort = "title"
    /\ currentPage = 0
    /\ isRendering = FALSE
    /\ searchDebounceTimer = 0
    /\ pendingTimers = {}
    /\ nextTimer = 1
    /\ searchInput = <<>>
    /\ frames = <<>>
    /\ filteredSongs = <<>>
    /\ display = InitialDisplay
    /\ activeMarks = {}
    /\ stats = [songCount |-> 0, favoriteCount |-> 0]
    /\ lsSongs = NoItem
    /\ lsFavorites = NoItem
    /\ fetchOutcome = "none"
    /\ loadMoreCount = 0

AppNext(sizes, inputs, maxTimers, maxKey) ==
    \/ LoadFromStorage(sizes)
    \/ InitRender
    \/ SearchInput(inputs, maxTimers)
    \/ SearchTimerFires
    \/ ShowFavoritesClick
    \/ SortToggleClick
    \/ ClearAllConfirmed
    \/ FavoriteClick(maxKey)
    \/ FrameCallback
    \/ CloseSession

(***************************************************************************)
(* The service worker: CacheStorage.                                       *)
(***************************************************************************)
Versions == 1..NumVersions

\* const CACHE_NAME of version i of the script
CACHE_NAME(i) == <<"songbook-v", i>>

\* Request keys: key 1 is listed in ASSETS, key 2 is fetched by the page only.
Keys == {1, 2}
ASSETS == {1}

BucketNames(storage) == {storage[n].name : n \in 1..Len(storage)}
HasKey(bucket, key) == \E e \in bucket.entries : e[1] = key
EntryBody(bucket, key) == (CHOOSE e \in bucket.entries : e[1] = key)[2]

\* caches.match(request): the first bucket, in creation order, that holds the
\* key answers; 0 stands for undefined.
CachesMatch(storage, key) ==
    LET hits == SelectSeq(storage, LAMBDA b : HasKey(b, key))
    IN IF hits = <<>> THEN 0 ELSE EntryBody(hits[1], key)

\* caches.open(name): the bucket is created when it does not exist
CachesOpen(storage, name) ==
    IF name \in BucketNames(storage) THEN storage
    ELSE Append(storage, [name |-> name, entries |-> {}])

\* caches.delete(name)
CachesDelete(storage, name) == SelectSeq(storage, LAMBDA b : b.name # name)

\* cache.put(request, response) on the bucket called name
CachePut(storage, name, key, body) ==
    [n \in 1..Len(storage) |->
        IF storage[n].name = name
        THEN [storage[n] EXCEPT !.entries = {e \in @ : e[1] # key} \cup {<<key, body>>}]
        ELSE storage[n]]

\* cache.addAll(ASSETS) on the bucket called name, every asset fetched
CacheAddAll(storage, name, body) ==
    [n \in 1..Len(storage) |->
        IF storage[n].name = name
        THEN [storage[n] EXCEPT !.entries =
                 {e \in @ : e[1] \notin ASSETS} \cup {<<k, body>> : k \in ASSETS}]
        ELSE storage[n]]

(***************************************************************************)
(* The service worker: lifecycle.                                          *)
(***************************************************************************)
ActiveVersions == {j \in Versions : swState[j] \in {"activating", "activated"}}
Unfinished(j) == \E r \in 1..Len(requests) : requests[r].inst = j /\ requests[r].pc # "done"

\* A new version of the site is deployed and the browser starts installing its
\* worker: the "install" listener runs up to caches.open(CACHE_NAME).
StartInstall(i) ==
    /\ online
    /\ swState[i] = "none"
    /\ i = deployed + 1
    /\ \A j \in Versions : j < i => swState[j] \in {"activated", "redundant"}
    /\ deployed' = i
    /\ swState' = [swState EXCEPT ![i] = "installing"]
    /\ swPc' = [swPc EXCEPT ![i] = "open"]
    /\ UNCHANGED <<skipWaitingFlag, cacheStorage, toDelete, controller, requests, online,
                   unhandledRejections>>
    /\ UNCHANGED <<appVars, passedThrough, messagesHandled>>

\* install: caches.open(CACHE_NAME) resolves
InstallOpen(i) ==
    /\ swState[i] = "installing"
    /\ swPc[i] = "open"
    /\ cacheStorage' = CachesOpen(cacheStorage, CACHE_NAME(i))
    /\ swPc' = [swPc EXCEPT ![i] = "addAll"]
    /\ UNCHANGED <<swState, skipWaitingFlag, toDelete, controller, requests, online, deployed,
                   unhandledRejections>>
    /\ UNCHANGED <<appVars, passedThrough, messagesHandled>>

\* The install chain without its catch: a failed addAll fails the install
InstallAddAllFatal(i) ==
    /\ swState[i] = "installing"
    /\ swPc[i] = "addAll"
    /\ \/ /\ online
          /\ cacheStorage' = CacheAddAll(cacheStorage, CACHE_NAME(i), deployed)
          /\ skipWaitingFlag' = [skipWaitingFlag EXCEPT ![i] = TRUE]
          /\ swState' = [swState EXCEPT ![i] = "installed"]
       \/ /\ UNCHANGED <<cacheStorage, skipWaitingFlag>>
          /\ swState' = [swState EXCEPT ![i] = "redundant"]
    /\ swPc' = [swPc EXCEPT ![i] = "idle"]
    /\ UNCHANGED <<toDelete, controller, requests, online, deployed, unhandledRejections>>
    /\ UNCHANGED <<appVars, passedThrough, messagesHandled>>

\* install: cache.addAll(ASSETS) settles; then skipWaiting(), or the catch
\* logs; either way the waitUntil promise resolves and the install completes.
InstallAddAll(i) ==
    /\ swState[i] = "installing"
    /\ swPc[i] = "addAll"
    /\ \/ /\ online
          /\ cacheStorage' = CacheAddAll(cacheStorage, CACHE_NAME(i), deployed)
          /\ skipWaitingFlag' = [skipWaitingFlag EXCEPT ![i] = TRUE]
       \/ /\ UNCHANGED <<cacheStorage, skipWaitingFlag>>
    /\ swState' = [swState EXCEPT ![i] = "installed"]
    /\ swPc' = [swPc EXCEPT ![i] = "idle"]
    /\ UNCHANGED <<toDelete, controller, requests, online, deployed, unhandledRejections>>
    /\ UNCHANGED <<appVars, passedThrough, messagesHandled>>

\* The browser activates a waiting worker: at once when there is no active
\* worker or skipWaiting() was called, else when the active worker has no
\* work left. The "activate" listener runs: waitUntil(caches.keys()...) is
\* started and self.clients.claim() is called.
Activate(i) ==
    /\ swState[i] = "installed"
    /\ \A j \in ActiveVersions : swState[j] = "activated"
    /\ \/ ActiveVersions = {}
       \/ skipWaitingFlag[i]
       \/ \A j \in ActiveVersions : ~Unfinished(j)
    /\ swState' = [j \in Versions |->
                      IF j = i THEN "activating"
                      ELSE IF j \in ActiveVersions THEN "redundant" ELSE swState[j]]
    /\ swPc' = [swPc EXCEPT ![i] = "keys"]
    /\ controller' = i
    /\ UNCHANGED <<skipWaitingFlag, cacheStorage, toDelete, requests, online, deployed,
                   unhandledRejections>>
    /\ UNCHANGED <<appVars, passedThrough, messagesHandled>>

\* activate: caches.keys() resolves; a caches.delete is started for every
\* name that is not CACHE_NAME
ActivateKeys(i) ==
    /\ swState[i] = "activating"
    /\ swPc[i] = "keys"
    /\ toDelete' = [toDelete EXCEPT ![i] = BucketNames(cacheStorage) \ {CACHE_NAME(i)}]
    /\ swPc' = [swPc EXCEPT ![i] = "delete"]
    /\ UNCHANGED <<swState, skipWaitingFlag, cacheStorage, controller, requests, online,
                   deployed, unhandledRejections>>
    /\ UNCHANGED <<appVars, passedThrough, messagesHandled>>

\* activate: one caches.delete(cache) completes ("deleting": some deletion is
\* done); a handler that holds the deleted bucket open writes to a bucket no
\* lookup sees
ActivateDelete(i) ==
    /\ swState[i] = "activating"
    /\ swPc[i] \in {"delete", "deleting"}
    /\ swPc' = [swPc EXCEPT ![i] = "deleting"]
    /\ \E name \in toDelete[i] :
         /\ cacheStorage' = CachesDelete(cacheStorage, name)
         /\ toDelete' = [toDelete EXCEPT ![i] = @ \ {name}]
         /\ requests' = [r \in 1..Len(requests) |->
                           IF requests[r].pc = "put" /\ CACHE_NAME(requests[r].inst) = name
                           THEN [requests[r] EXCEPT !.orphan = TRUE]
                           ELSE requests[r]]
    /\ UNCHANGED <<swState, skipWaitingFlag, controller, online, deployed,
                   unhandledRejections>>
    /\ UNCHANGED <<appVars, passedThrough, messagesHandled>>

\* activate: Promise.all of the deletions resolves, the worker is activated
ActivateDone(i) ==
    /\ swState[i] = "activating"
    /\ swPc[i] \in {"delete", "deleting"}
    /\ toDelete[i] = {}
    /\ swState' = [swState EXCEPT ![i] = "activated"]
    /\ swPc' = [swPc EXCEPT ![i] = "idle"]
    /\ UNCHANGED <<skipWaitingFlag, cacheStorage, toDelete, controller, requests, online,
                   deployed, unhandledRejections>>
    /\ UNCHANGED <<appVars, passedThrough, messagesHandled>>

\* Connectivity comes and goes.
NetworkChange ==
    /\ online' = ~online
    /\ UNCHANGED <<swState, swPc, skipWaitingFlag, cacheStorage, toDelete, controller,
                   requests, deployed, unhandledRejections>>
    /\ UNCHANGED <<appVars, passedThrough, messagesHandled>>

(***************************************************************************)
(* The service worker: the "fetch" listener.                               *)
(***************************************************************************)
Methods == {"GET", "POST"}
Schemes == {"https", "chrome-extension"}

\* The listener without its guard on the method
InterceptedAnyMethod(method, scheme) == scheme # "chrome-extension"

\* The listener's guards: no respondWith for an extension URL or a non-GET
Intercepted(method, scheme) == scheme # "chrome-extension" /\ method = "GET"

\* The handler of a request given to event.respondWith, at caches.match
NewRequest(inst, key, method, scheme) ==
    [inst |-> inst, key |-> key, method |-> method, scheme |-> scheme, pc |-> "match",
     result |-> "pending", status |-> 0, body |-> 0, orphan |-> FALSE]

\* The page issues a request; the browser dispatches a fetch event to the
\* worker controlling the page, once that worker is activated.
FetchEvent(maxRequests) ==
    /\ controller # 0
    /\ swState[controller] = "activated"
    /\ Len(requests) + passedThrough < maxRequests
    /\ \E key \in Keys, method \in Methods, scheme \in Schemes :
         IF Intercepted(method, scheme)
         THEN /\ requests' = Append(requests, NewRequest(controller, key, method, scheme))
              /\ UNCHANGED passedThrough
         ELSE /\ passedThrough' = passedThrough + 1
              /\ UNCHANGED requests
    /\ UNCHANGED <<swState, swPc, skipWaitingFlag, cacheStorage, toDelete, controller, online,
                   deployed, unhandledRejections>>
    /\ UNCHANGED <<appVars, messagesHandled>>

\* What the .then of caches.match(event.request) does with the lookup's result
AfterMatch(req, response) ==
    IF response # 0
    THEN [req EXCEPT !.pc = "done", !.result = "cached", !.status = 200, !.body = response]
    ELSE [req EXCEPT !.pc = "fetch"]

\* caches.match(event.request) settles: a hit is returned, a miss goes to the
\* network; a rejected lookup rejects the promise given to respondWith.
MatchSettles(r) ==
    /\ requests[r].pc = "match"
    /\ \/ requests' = [requests EXCEPT ![r] = AfterMatch(@, CachesMatch(cacheStorage, @.key))]
       \/ requests' = [requests EXCEPT ![r] = [@ EXCEPT !.pc = "done", !.result = "rejected"]]
    /\ UNCHANGED <<swState, swPc, skipWaitingFlag, cacheStorage, toDelete, controller, online,
                   deployed, unhandledRejections>>
    /\ UNCHANGED <<appVars, passedThrough, messagesHandled>>

\* The .then of fetch without its valid-response check: every response is stored
AfterFetchStoresAll(req, status, body) ==
    [req EXCEPT !.pc = "open", !.result = "network", !.status = status, !.body = body]

\* The .then of fetch(event.request): a response that is not a plain 200 is
\* returned as it is; else the copy's write is started and the response returned.
AfterFetch(req, status, body) ==
    IF status # 200
    THEN [req EXCEPT !.pc = "done", !.result = "network", !.status = status, !.body = body]
    ELSE [req EXCEPT !.pc = "open", !.result = "network", !.status = status, !.body = body]

\* The .catch of the fetch chain
OfflineResponse(req) == [req EXCEPT !.pc = "done", !.result = "offline503", !.status = 503]

\* fetch(event.request) settles
FetchSettles(r) ==
    /\ requests[r].pc = "fetch"
    /\ \/ /\ online
          /\ \/ requests' = [requests EXCEPT ![r] = AfterFetch(@, 200, deployed)]
             \/ requests' = [requests EXCEPT ![r] = AfterFetch(@, 404, 0)]
       \/ /\ ~online
          /\ requests' = [requests EXCEPT ![r] = OfflineResponse(@)]
    /\ UNCHANGED <<swState, swPc, skipWaitingFlag, cacheStorage, toDelete, controller, online,
                   deployed, unhandledRejections>>
    /\ UNCHANGED <<appVars, passedThrough, messagesHandled>>

\* caches.open(CACHE_NAME) of the handler settles
OpenSettles(r) ==
    /\ requests[r].pc = "open"
    /\ \/ /\ cacheStorage' = CachesOpen(cacheStorage, CACHE_NAME(requests[r].inst))
          /\ requests' = [requests EXCEPT ![r].pc = "put"]
          /\ UNCHANGED unhandledRejections
       \/ /\ requests' = [requests EXCEPT ![r].pc = "done"]
          /\ unhandledRejections' = TRUE
          /\ UNCHANGED cacheStorage
    /\ UNCHANGED <<swState, swPc, skipWaitingFlag, toDelete, controller, online, deployed>>
    /\ UNCHANGED <<appVars, passedThrough, messagesHandled>>

\* cache.put(event.request, responseToCache) settles
PutSettles(r) ==
    /\ requests[r].pc = "put"
    /\ requests' = [requests EXCEPT ![r].pc = "done"]
    /\ \/ /\ cacheStorage' = IF requests[r].orphan THEN cacheStorage
                             ELSE CachePut(cacheStorage, CACHE_NAME(requests[r].inst),
                                           requests[r].key, requests[r].body)
          /\ UNCHANGED unhandledRejections
       \/ /\ unhandledRejections' = TRUE
          /\ UNCHANGED cacheStorage
    /\ UNCHANGED <<swState, swPc, skipWaitingFlag, toDelete, controller, online, deployed>>
    /\ UNCHANGED <<appVars, passedThrough, messagesHandled>>

(***************************************************************************)
(* The service worker: the "message" listener.                             *)
(***************************************************************************)
\* event.data of the messages a page can post: none, the command, another one
MessageData ==
    {[hasData |-> FALSE, type |-> "none"],
     [hasData |-> TRUE, type |-> "SKIP_WAITING"],
     [hasData |-> TRUE, type |-> "OTHER"]}

\* The listener's test without its comparison of the type
IsSkipWaitingAnyData(data) == data.hasData

\* if (event.data && event.data.type === "SKIP_WAITING")
IsSkipWaiting(data) == data.hasData /\ data.type = "SKIP_WAITING"

\* The "message" listener of worker i
Message(i, data) ==
    /\ swState[i] \in {"installing", "installed", "activating", "activated"}
    /\ messagesHandled < MaxMessages
    /\ messagesHandled' = messagesHandled + 1
    /\ skipWaitingFlag' = IF IsSkipWaiting(data)
                          THEN [skipWaitingFlag EXCEPT ![i] = TRUE]
                          ELSE skipWaitingFlag
    /\ UNCHANGED <<swState, swPc, cacheStorage, toDelete, controller, requests, online,
                   deployed, unhandledRejections>>
    /\ UNCHANGED <<appVars, passedThrough>>

MessageEvent == \E i \in Versions, data \in MessageData : Message(i, data)

SomeMatchSettles == \E r \in 1..Len(requests) : MatchSettles(r)
SomeFetchSettles == \E r \in 1..Len(requests) : FetchSettles(r)
SomeOpenSettles == \E r \in 1..Len(requests) : OpenSettles(r)
SomePutSettles == \E r \in 1..Len(requests) : PutSettles(r)

\* No worker is registered, CacheStorage is empty.
SWInit ==
    /\ swState = [i \in Versions |-> "none"]
    /\ swPc = [i \in Versions |-> "idle"]
    /\ skipWaitingFlag = [i \in Versions |-> FALSE]
    /\ cacheStorage = <<>>
    /\ toDelete = [i \in Versions |-> {}]
    /\ controller = 0
    /\ requests = <<>>
    /\ passedThrough = 0
    /\ messagesHandled = 0
    /\ online = TRUE
    /\ deployed = 0
    /\ unhandledRejections = FALSE

SWSteps(maxRequests) ==
    \/ \E i \in Versions : StartInstall(i)
    \/ \E i \in Versions : InstallOpen(i)
    \/ \E i \in Versions : InstallAddAll(i)
    \/ \E i \in Versions : Activate(i)
    \/ \E i \in Versions : ActivateKeys(i)
    \/ \E i \in Versions : ActivateDelete(i)
    \/ \E i \in Versions : ActivateDone(i)
    \/ NetworkChange
    \/ FetchEvent(maxRequests)
    \/ MessageEvent
    \/ SomeMatchSettles
    \/ SomeFetchSettles
    \/ SomeOpenSettles
    \/ SomePutSettles

SWNext == SWSteps(MaxRequests)

Init == AppInit /\ SWInit

(***************************************************************************)
(* Claims about the page script.                                           *)
(***************************************************************************)
IsLoadStep == pc = "closed" /\ pc' = "loaded"

\* C1: every song number in the persisted favorites when a session ends is,
\* after the next loadFromStorage (whatever the catalog fetch did), in the
\* in-memory favorites and still in the persisted favorites.
C1_FavoritesSurviveRestart ==
    [][(IsLoadStep /\ Truthy(lsFavorites)) =>
          \A x \in Elements(JSONparse(lsFavorites)) :
              /\ SetHas(favorites', x)
              /\ Truthy(lsFavorites')
              /\ x \in Elements(JSONparse(lsFavorites'))]_vars

\* The favorites after toggleFavorite(x) twice in a row
ToggledTwice(favs, x) == ToggledFavorites(ToggledFavorites(favs, x), x)

\* favs with x moved to the end when it is a member
MovedToEnd(favs, x) == IF SetHas(favs, x) THEN Append(SetDelete(favs, x), x) ELSE favs

FavoriteNumbers == {Song(k).number : k \in 1..MaxFavoriteKey}

\* C3 (as claimed): toggleFavorite(x) twice in a row leaves the membership of
\* every number as it was and the persisted favorites array, order included,
\* identical to what it was before the two calls.
C3_ToggleTwiceRestoresSerialization ==
    (pc = "ready" /\ Truthy(lsFavorites)) =>
        \A x \in FavoriteNumbers :
            /\ Elements(ToggledTwice(favorites, x)) = Elements(favorites)
            /\ JSONstringify(ToggledTwice(favorites, x)) = lsFavorites

\* C3 (amended): toggleFavorite(x) twice in a row leaves the membership of
\* every number as it was; the persisted array then holds the same numbers
\* with x moved to the end when x was a favorite, so it is identical to the
\* array persisted before exactly when x was no favorite or the last one.
C3_ToggleTwiceMovesToEnd ==
    pc = "ready" =>
        \A x \in FavoriteNumbers :
            /\ Elements(ToggledTwice(favorites, x)) = Elements(favorites)
            /\ JSONstringify(ToggledTwice(favorites, x))
                   = JSONstringify(MovedToEnd(favorites, x))
            /\ Truthy(lsFavorites) =>
                   /\ lsFavorites = JSONstringify(favorites)
                   /\ (JSONstringify(ToggledTwice(favorites, x)) = lsFavorites)
                          <=> (~SetHas(favorites, x) \/ favorites[Len(favorites)] = x)

\* C3 witness: two favorites are held and persisted, in the order they were added.
C3_Witness ==
    /\ pc = "ready"
    /\ Len(favorites) = 2
    /\ lsFavorites = JSONstringify(favorites)
    /\ favorites[1] = Song(2).number

\* C8: when the catalog fetch at startup fails (it rejects, or answers with a
\* non-OK response), the in-memory catalog after loadFromStorage is the
\* persisted catalog when there is one and empty otherwise, and the persisted
\* catalog is unchanged.
C8_FailedFetchFallsBack ==
    [][(IsLoadStep /\ fetchOutcome' \in {"not_ok", "reject"}) =>
          /\ songs' = IF Truthy(lsSongs) THEN JSONparse(lsSongs) ELSE <<>>
          /\ lsSongs' = lsSongs]_vars

\* C9: after the render and N load-more clicks, exactly
\* min(ITEMS_PER_PAGE * (N + 1), T) songs are displayed, they are that prefix
\* of the sorted result, in order and without duplicates, and the load-more
\* button exists iff fewer than T songs are displayed.
C9_Pagination ==
    (pc = "ready" /\ display.mode \in {"list", "no_songs_loaded", "no_songs_match"}) =>
        LET T == Len(filteredSongs)
            shown == Min(ITEMS_PER_PAGE * (loadMoreCount + 1), T)
        IN /\ Len(display.items) = shown
           /\ display.items = SubSeq(filteredSongs, 1, shown)
           /\ Cardinality(Elements(display.items)) = Len(display.items)
           /\ display.btn <=> Len(display.items) < T

\* C9 witness: two load-more clicks have shown the whole of a result of more
\* than two pages, and the button is gone.
C9_Witness ==
    /\ pc = "ready"
    /\ display.mode = "list"
    /\ loadMoreCount = 2
    /\ Len(display.items) = Len(filteredSongs)
    /\ Len(display.items) > 2 * ITEMS_PER_PAGE
    /\ ~display.btn

\* C10: at most one frame callback is ever pending; while isRendering is true
\* a step either is that callback (or the page closing) or leaves the pending
\* callback, the flag and the loading indicator as they were.
C10_AtMostOneRender ==
    /\ [](Len(frames) <= 1 /\ (isRendering <=> frames # <<>>))
    /\ [][isRendering =>
             \/ /\ frames' = frames
                /\ isRendering'
                /\ (display'.mode = "loading" => display.mode = "loading")
             \/ /\ frames' = <<>>
                /\ ~isRendering']_vars

\* C10 witness: the debounce timer fired while a callback that captured an
\* older search term was pending, and its renderSongs() was dropped.
C10_Witness ==
    /\ isRendering
    /\ Len(frames) = 1
    /\ frames[1] # Trim(ToLowerCase(searchInput))
    /\ searchDebounceTimer # 0
    /\ pendingTimers = {}

\* The marks that differ between two sets of marked buttons
ChangedMarks(before, after) == (before \ after) \cup (after \ before)

\* C11: toggleFavorite(x), called from the button of a displayed song, starts
\* no render and leaves the displayed songs, the catalog (in memory and
\* persisted), the query state and the pagination position as they were; it
\* changes only the favorites, their persisted copy, the active mark of at
\* most the one displayed button of x, and the counts.
C11_ToggleLeavesDisplay ==
    [][\A k \in 1..MaxFavoriteKey :
          (pc = "ready" /\ k \in Elements(display.items) /\ toggleFavorite(Song(k).number)) =>
              /\ display' = display
              /\ filteredSongs' = filteredSongs
              /\ frames' = frames
              /\ isRendering' = isRendering
              /\ songs' = songs
              /\ lsSongs' = lsSongs
              /\ <<currentFilter, currentSort, searchInput, pendingTimers>>'
                     = <<currentFilter, currentSort, searchInput, pendingTimers>>
              /\ <<currentPage, loadMoreCount>>' = <<currentPage, loadMoreCount>>
              /\ Elements(favorites') = ChangedMarks(Elements(favorites), {Song(k).number})
              /\ lsFavorites' = JSONstringify(favorites')
              /\ Cardinality(ChangedMarks(activeMarks, activeMarks')) <= 1
              /\ \A m \in ChangedMarks(activeMarks, activeMarks') :
                     Song(m).number = Song(k).number
              /\ \A m \in Elements(display.items) :
                     Song(m).number = Song(k).number =>
                         (m \in activeMarks' <=> SetHas(favorites', Song(k).number))
              /\ stats' = updateStats(songs, favorites')]_vars

\* C11 witness: in the favorites view a displayed song has been un-favorited
\* and is still displayed, its button unmarked, next to a marked one.
C11_Witness ==
    /\ pc = "ready"
    /\ ~isRendering
    /\ currentFilter = "favorites"
    /\ display.mode = "list"
    /\ \E m \in Elements(display.items) :
           ~SetHas(favorites, Song(m).number) /\ m \notin activeMarks
    /\ activeMarks # {}
    /\ stats.favoriteCount = Len(favorites)

\* An input event is handled in this step: a new timer is set.
IsInputStep == pc = "ready" /\ pc' = "ready" /\ searchDebounceTimer' # searchDebounceTimer

\* A debounce timer fires in this step.
IsTimerStep == pc = "ready" /\ pc' = "ready" /\ pendingTimers' # pendingTimers
                  /\ searchDebounceTimer' = searchDebounceTimer

\* C16: at most one debounce timer is pending, and it is the one set by the
\* last input event; an input event cancels the pending timer, sets one and
\* triggers no query; the query trigger is issued when the timer of the last
\* input event fires, once, and no timer is pending after it.
C16_SearchCoalesced ==
    /\ [](Cardinality(pendingTimers) <= 1 /\ pendingTimers \subseteq {searchDebounceTimer})
    /\ [][(IsInputStep =>
              /\ pendingTimers' = {searchDebounceTimer'}
              /\ searchDebounceTimer' \notin pendingTimers
              /\ <<isRendering, frames, display, currentPage>>'
                     = <<isRendering, frames, display, currentPage>>)
          /\ (IsTimerStep =>
              /\ pendingTimers = {searchDebounceTimer}
              /\ pendingTimers' = {}
              /\ currentPage' = 0
              /\ isRendering'
              /\ frames' = IF isRendering THEN frames
                           ELSE Append(frames, Trim(ToLowerCase(searchInput))))]_vars

\* C16 witness: two input events set two timers; the second has fired and
\* triggered the render that is pending, with its term; no timer is pending.
C16_Witness ==
    /\ pc = "ready"
    /\ nextTimer = 3
    /\ searchDebounceTimer = 2
    /\ pendingTimers = {}
    /\ isRendering
    /\ searchInput # <<>>
    /\ frames = <<Trim(ToLowerCase(searchInput))>>
    /\ Len(filteredSongs) = Len(songs)
    /\ Len(songs) > 0

\* The first page of a result
FirstPage(result) == SubSeq(result, 1, Min(ITEMS_PER_PAGE, Len(result)))

\* The result of the query for what the page shows as its query state now
CurrentResult ==
    QueryResult(songs, Trim(ToLowerCase(searchInput)), currentFilter, currentSort, favorites)

\* The pending render runs in this step, every debounced search term issued.
IsSettlingRender ==
    /\ pc = "ready"
    /\ pc' = "ready"
    /\ pendingTimers = {}
    /\ frames # <<>>
    /\ frames' = <<>>

\* C17: once a change of the search term, the filter or the sort has been
\* processed (no debounce timer is pending and the render has run), at most
\* one page is displayed and it is the first page of the result for the new
\* query state.
C17_PaginationResets ==
    [][IsSettlingRender =>
          /\ Len(display'.items) <= ITEMS_PER_PAGE
          /\ display'.items = FirstPage(CurrentResult)]_vars

\* Search box contents the query is checked for.
QueryInputs ==
    SearchInputs \cup { <<"a","3">>, <<"A"," ","3">>, <<"C","H","A","I","N"," ","S">> }

\* The songs whose normalized title or artist, or whitespace-stripped number,
\* contains the normalized form of the typed text (all songs when it is empty)
SearchMatches ==
    [typed \in QueryInputs |->
        LET term == StripWhitespace(ToLowerCase(typed))
        IN {k \in 1..SmallCatalog :
               \/ term = <<>>
               \/ Includes(StripWhitespace(ToLowerCase(Song(k).title)), term)
               \/ Includes(StripWhitespace(ToLowerCase(Song(k).artist)), term)
               \/ Includes(StripWhitespace(Song(k).number), term)}]

\* The two conditions of a match, for the text of the search box as typed
SatisfiesQuery(k, typed, filter, favs) ==
    /\ k \in SearchMatches[typed]
    /\ filter = "all" \/ Song(k).number \in Elements(favs)

\* C18: the songs the filter of a query keeps are exactly the songs of the
\* catalog that satisfy both conditions, each once; with no favorites the
\* favorites view is empty for every search term; and the frame callback
\* leaves exactly these songs, sorted, in filteredSongs.
C18_QueryResultSet ==
    /\ [](pc = "ready" =>
             \A typed \in QueryInputs : \A filter \in {"all", "favorites"} :
                 LET result == FilterSongs(songs, Trim(ToLowerCase(typed)), filter, favorites)
                     expected == {k \in Elements(songs) :
                                     SatisfiesQuery(k, typed, filter, favorites)}
                 IN /\ Elements(result) = expected
                    /\ Len(result) = Cardinality(expected)
                    /\ (favorites = <<>> /\ filter = "favorites") => result = <<>>)
    /\ [][(pc = "ready" /\ frames # <<>> /\ frames' = Tail(frames) /\ pc' = "ready") =>
             \E typed \in QueryInputs :
                 /\ Head(frames) = Trim(ToLowerCase(typed))
                 /\ Elements(filteredSongs')
                        = {k \in Elements(songs) :
                              SatisfiesQuery(k, typed, currentFilter, favorites)}]_vars

\* C18 witness: the favorites view of a search shows the one favorite among
\* the two songs that match the typed term.
C18_Witness ==
    /\ pc = "ready"
    /\ ~isRendering
    /\ pendingTimers = {}
    /\ currentFilter = "favorites"
    /\ StripWhitespace(ToLowerCase(searchInput)) # <<>>
    /\ Len(filteredSongs) = 1
    /\ display.items = filteredSongs
    /\ Len(FilterSongs(songs, Trim(ToLowerCase(searchInput)), "all", favorites)) = 2
    /\ Len(favorites) >= 2

\* The favorites sets a render can have read: every duplicate-free sequence
\* of the numbers a favorite button can pass
FavoriteSnapshots ==
    {f \in UNION {[1..n -> FavoriteNumbers] : n \in 0..MaxFavoriteKey} :
        Cardinality(Elements(f)) = Len(f)}

\* C20: whenever no debounce timer is pending and no render is in flight, the
\* first page displayed is the first page of the query result for the current
\* search input, filter, sort and catalog, with the favorites as they were at
\* some render.
C20_DisplayConverges ==
    (pc = "ready" /\ pendingTimers = {} /\ ~isRendering /\ frames = <<>>) =>
        \E favs \in FavoriteSnapshots :
            FirstPage(display.items)
                = FirstPage(QueryResult(songs, Trim(ToLowerCase(searchInput)), currentFilter,
                                        currentSort, favs))


(***************************************************************************)
(* Claims about the service worker.                                        *)
(***************************************************************************)
Newest(i) == \A j \in Versions : j > i => swState[j] = "none"

\* C2: once the activation of version V has completed, the bucket names are
\* exactly {CACHE_NAME of V}, and stay so until a newer version is installed,
\* whatever this worker's and a superseded worker's handlers still do.
C2_OnlyCurrentBucket ==
    \A i \in Versions :
        (swState[i] = "activated" /\ Newest(i)) =>
            BucketNames(cacheStorage) = {CACHE_NAME(i)}

\* Some stale bucket has been deleted by an activation and another has not.
HalfDeleted ==
    \E i \in Versions : swState[i] = "activating" /\ swPc[i] = "deleting" /\ toDelete[i] # {}

\* Request r's caches.match settles in this step.
IsLookupStep(r) == requests[r].pc = "match" /\ requests'[r].pc # "match"

\* C4: a worker neither controls the open page nor serves a request before its
\* deletion of the stale buckets has completed, and no request's cache lookup
\* runs against a bucket set of which only some stale buckets are deleted.
C4_ActivationNotObservable ==
    /\ [](controller # 0 => swState[controller] = "activated")
    /\ [](\A r \in 1..Len(requests) :
              swState[requests[r].inst] \notin {"installing", "installed", "activating"})
    /\ [][\A r \in 1..Len(requests) : IsLookupStep(r) => ~HalfDeleted]_vars

InBucket(storage, name, key, body) ==
    \E n \in 1..Len(storage) : storage[n].name = name /\ <<key, body>> \in storage[n].entries

\* C5: when a network response with status 200 is returned for a request that
\* missed the cache, its copy is already in the bucket CACHE_NAME.
C5_StoredBeforeReturned ==
    [][\A r \in 1..Len(requests) :
          (requests[r].pc = "fetch" /\ requests'[r].result = "network"
              /\ requests'[r].status = 200) =>
              InBucket(cacheStorage', CACHE_NAME(requests[r].inst), requests[r].key,
                       requests'[r].body)]_vars

\* C6: every request given to respondWith is answered with a response (the 503
\* offline response when the network fetch rejects on a miss) and no failure of
\* the lookup, the fetch or the cache write is thrown or left unhandled.
C6_AlwaysAnswered ==
    /\ \A r \in 1..Len(requests) :
           /\ requests[r].result # "rejected"
           /\ requests[r].result = "offline503" => requests[r].status = 503
    /\ ~unhandledRejections

\* C7: a request whose key is in some bucket gets the cached response and
\* issues no network fetch, and an entry, once cached, is not replaced by a
\* fetch of the same request for as long as its bucket exists.
C7_CachedEntryIsFinal ==
    /\ [][\A r \in 1..Len(requests) :
             (IsLookupStep(r) /\ CachesMatch(cacheStorage, requests[r].key) # 0) =>
                 /\ requests'[r].pc = "done"
                 /\ requests'[r].result = "cached"
                 /\ requests'[r].body = CachesMatch(cacheStorage, requests[r].key)]_vars
    /\ [][\A n \in 1..Len(cacheStorage) : \A m \in 1..Len(cacheStorage') :
             cacheStorage'[m].name = cacheStorage[n].name =>
                 cacheStorage[n].entries \subseteq cacheStorage'[m].entries]_vars

\* The install of worker i ends in this step.
IsInstallEnd(i) == swState[i] = "installing" /\ swState'[i] # "installing"

\* Worker i leaves the waiting state for activation in this step.
IsActivateStep(i) == swState[i] = "installed" /\ swState'[i] = "activating"

\* Every asset of ASSETS is in the bucket of version i.
AssetsCached(storage, i) ==
    \E n \in 1..Len(storage) :
        /\ storage[n].name = CACHE_NAME(i)
        /\ \A k \in ASSETS : HasKey(storage[n], k)

C13_ActivationWaitsForInFlightWork ==
    [][\A i \in Versions :
          IsActivateStep(i) =>
              /\ swPc[i] = "idle"
              /\ messagesHandled = 0 => \A j \in ActiveVersions : ~Unfinished(j)]_vars

\* C14: a message of type SKIP_WAITING handled by worker i calls skipWaiting()
\* and changes nothing else, after which a waiting worker can be activated
\* (once the active worker's own activation is done) whether or not the active
\* worker has requests in flight; a message of another type, or without data,
\* changes nothing.
C14_SkipWaitingMessage ==
    /\ [](\A i \in Versions :
             (/\ swState[i] = "installed"
              /\ skipWaitingFlag[i]
              /\ \A j \in ActiveVersions : swState[j] = "activated") => ENABLED Activate(i))
    /\ [][\A i \in Versions : \A data \in MessageData :
             Message(i, data) =>
                 /\ <<swState, swPc, cacheStorage, toDelete, controller, requests,
                       passedThrough, online, deployed, unhandledRejections>>'
                        = <<swState, swPc, cacheStorage, toDelete, controller, requests,
                            passedThrough, online, deployed, unhandledRejections>>
                 /\ IF data.hasData /\ data.type = "SKIP_WAITING"
                    THEN skipWaitingFlag' = [skipWaitingFlag EXCEPT ![i] = TRUE]
                    ELSE skipWaitingFlag' = skipWaitingFlag]_vars

\* C14 witness: version 2, whose addAll failed, got the SKIP_WAITING message
\* while waiting and has replaced the active worker, which still has a
\* request in flight.
C14_Witness ==
    /\ NumVersions >= 2
    /\ swState[2] \in {"activating", "activated"}
    /\ ~AssetsCached(cacheStorage, 2)
    /\ skipWaitingFlag[2]
    /\ messagesHandled = 1
    /\ swState[1] = "redundant"
    /\ Unfinished(1)

\* C15: only a GET request whose URL is not of the chrome-extension scheme is
\* given to respondWith (and so looked up in the caches or fetched by the
\* handler); a fetch event for any other request starts no handler and leaves
\* every bucket as it was.
C15_PassThrough ==
    /\ [](\A r \in 1..Len(requests) :
             requests[r].method = "GET" /\ requests[r].scheme # "chrome-extension")
    /\ [][passedThrough' # passedThrough =>
             /\ passedThrough' = passedThrough + 1
             /\ requests' = requests
             /\ cacheStorage' = cacheStorage
             /\ unhandledRejections' = unhandledRejections]_vars

\* C15 witness: the controlling worker has let a request pass through while
\* its bucket holds the assets.
C15_Witness ==
    /\ passedThrough = 1
    /\ requests = <<>>
    /\ controller # 0
    /\ AssetsCached(cacheStorage, controller)

\* C19: the handler writes to a bucket only the copy of a network response of
\* status 200; a response of another status and the 503 offline response are
\* returned with no write started; so every entry of every bucket holds the
\* body of a 200 response, and every cache hit is answered with such a body.
C19_OnlyGoodResponsesStored ==
    /\ [](/\ \A n \in 1..Len(cacheStorage) : \A e \in cacheStorage[n].entries :
                e[2] \in Versions
          /\ \A r \in 1..Len(requests) :
                /\ requests[r].pc \in {"open", "put"} =>
                       requests[r].result = "network" /\ requests[r].status = 200
                /\ requests[r].result = "cached" =>
                       requests[r].status = 200 /\ requests[r].body \in Versions)
    /\ [][\A r \in 1..Len(requests) :
             /\ (requests[r].pc = "fetch" /\ requests'[r].pc # "fetch"
                    /\ requests'[r].status # 200) =>
                    /\ requests'[r].pc = "done"
                    /\ requests'[r].result \in {"network", "offline503"}
                    /\ cacheStorage' = cacheStorage
             /\ (requests[r].pc = "put" /\ requests'[r].pc = "done") =>
                    /\ requests[r].status = 200
                    /\ \/ cacheStorage' = cacheStorage
                       \/ cacheStorage' = CachePut(cacheStorage, CACHE_NAME(requests[r].inst),
                                                   requests[r].key, requests[r].body)]_vars

\* C19 witness: a request that missed the cache was answered with the
\* network's 404, and its key is in no bucket afterwards.
C19_Witness ==
    /\ Len(requests) = 1
    /\ requests[1].pc = "done"
    /\ requests[1].result = "network"
    /\ requests[1].status = 404
    /\ CachesMatch(cacheStorage, requests[1].key) = 0
    /\ cacheStorage # <<>>

\* The page script over the small catalogs: none exceeds ITEMS_PER_PAGE, so no
\* load-more button is ever created.
Next == AppNext(CatalogSizes, SearchInputs, MaxTimers, MaxFavoriteKey)
Spec == Init /\ [][Next]_vars

\* The page script over the large catalog.
NextPaging ==
    \/ AppNext(PagingSizes, PagingInputs, PagingTimers, PagingFavoriteKey)
    \/ LoadMoreClick
SpecPaging == Init /\ [][NextPaging]_vars

\* The service worker.
SpecSW == Init /\ [][SWNext]_vars

\* The service worker with fewer requests in flight.
NextLifecycle == SWSteps(LifecycleRequests)
SpecLifecycle == Init /\ [][NextLifecycle]_vars

====
